---- MODULE Spec2Model ----
(***************************************************************************)
(* A model of src/shared/queue.c (BlueZ): a reference-counted singly       *)
(* linked queue of opaque handles, with head/tail insertion, head removal, *)
(* search, conditional removal and an iteration (queue_foreach) whose      *)
(* callback may mutate or destroy the queue.                               *)
(*                                                                         *)
(* Memory is explicit: entries live at addresses 1..MaxNodes, a freed      *)
(* entry's contents are indeterminate, and a read of freed memory is       *)
(* recorded in faults and yields every value the build may produce.        *)
(***************************************************************************)
EXTENDS Integers, Sequences, FiniteSets, TLC

\* ---------------------------------------------------------------- bounds
MaxNodes == 3
MaxHandle == 2
MaxDepth == 2
MaxCbOps == 3
MaxDestroys == 2

NULL == 0
Nodes == 1..MaxNodes
Handles == 0..MaxHandle
Ptrs == Nodes \cup {NULL}

\* A match function is modelled by the set of handles it answers true for;
\* an absent function pointer is NoFn.
NoFn == [present |-> FALSE, yes |-> {}]
MatchFns == {[present |-> TRUE, yes |-> s] : s \in SUBSET Handles}
Fns == MatchFns \cup {NoFn}

\* ----------------------------------------------------------------- state
VARIABLES
    mem,       \* entry memory: address -> [used, data, next]
    queue,     \* struct queue: [ref_count, head, tail, entries]
    qmem,      \* the struct's storage: "none", "live" or "freed"
    stack,     \* the queue_foreach calls in progress, outermost first
    last,      \* the last public call that returned, and what it returned
    faults,    \* the reads and frees of freed memory that have happened
    crashed,   \* a read or free of freed memory ended the program
    destroys   \* the number of queue_destroy calls made so far

vars == <<mem, queue, qmem, stack, last, faults, crashed, destroys>>

FreeEntry == [used |-> FALSE, data |-> NULL, next |-> NULL]

\* The addresses reached from n by next links, in order (at most fuel of them).
RECURSIVE Walk(_, _, _)
Walk(m, n, fuel) ==
    IF n = NULL \/ fuel = 0 THEN <<>>
    ELSE <<n>> \o Walk(m, m[n].next, fuel - 1)

Chain(m, q) == Walk(m, q.head, MaxNodes + 1)

\* The handles stored from head to tail.
Contents(m, q) == [i \in 1..Len(Chain(m, q)) |-> m[Chain(m, q)[i]].data]

Result(op, arg, fn, ret, dlog) ==
    [op |-> op, arg |-> arg, fn |-> fn, ret |-> ret, dlog |-> dlog]

\* ------------------------------------------------------ reference counting
\* queue_ref that takes two references.
queue_ref_Twice(q) == [q EXCEPT !.ref_count = @ + 2]

queue_ref(q) == [q EXCEPT !.ref_count = @ + 1]

\* queue_unref with the test off by one: it frees while a holder is left.
queue_unref_FreeEarly(q) ==
    LET q1 == [q EXCEPT !.ref_count = @ - 1]
    IN [queue |-> q1, freed |-> (q1.ref_count <= 1)]

\* The struct after the decrement, and whether it was freed.
queue_unref(q) ==
    LET q1 == [q EXCEPT !.ref_count = @ - 1]
    IN [queue |-> q1, freed |-> (q1.ref_count = 0)]

\* new0(): a free address, or NULL when the allocation fails.
new0(m) == {NULL} \cup {n \in Nodes : ~m[n].used}

\* queue.entries is an unsigned int; the operations keep it equal to the
\* number of linked entries (C5_WellFormed), so its arithmetic never wraps.

\* ------------------------------------------------ the list operations
\* queue_push_tail without "queue->tail->next = entry".
PushTail_NoLink(m, q, entry, data) ==
    LET m1 == [m EXCEPT ![entry] = [used |-> TRUE, data |-> data, next |-> NULL]]
        q1 == [q EXCEPT !.tail = entry]
        q2 == IF q1.head = NULL THEN [q1 EXCEPT !.head = entry] ELSE q1
    IN [mem |-> m1, queue |-> [q2 EXCEPT !.entries = @ + 1]]

\* queue_push_tail once the allocation gave entry (lines 110-121).
PushTail(m, q, entry, data) ==
    LET m1 == [m EXCEPT ![entry] = [used |-> TRUE, data |-> data, next |-> NULL]]
        m2 == IF q.tail # NULL THEN [m1 EXCEPT ![q.tail].next = entry] ELSE m1
        q1 == [q EXCEPT !.tail = entry]
        q2 == IF q1.head = NULL THEN [q1 EXCEPT !.head = entry] ELSE q1
    IN [mem |-> m2, queue |-> [q2 EXCEPT !.entries = @ + 1]]

\* queue_push_head without "queue->entries++".
PushHead_NoCount(m, q, entry, data) ==
    LET m1 == [m EXCEPT ![entry] = [used |-> TRUE, data |-> data, next |-> q.head]]
        q1 == [q EXCEPT !.head = entry]
        q2 == IF q1.tail = NULL THEN [q1 EXCEPT !.tail = entry] ELSE q1
    IN [mem |-> m1, queue |-> q2]

\* queue_push_head once the allocation gave entry (lines 137-145).
PushHead(m, q, entry, data) ==
    LET m1 == [m EXCEPT ![entry] = [used |-> TRUE, data |-> data, next |-> q.head]]
        q1 == [q EXCEPT !.head = entry]
        q2 == IF q1.tail = NULL THEN [q1 EXCEPT !.tail = entry] ELSE q1
    IN [mem |-> m1, queue |-> [q2 EXCEPT !.entries = @ + 1]]

\* queue_pop_head that leaves tail alone when it pops the only entry.
PopHead_KeepTail(m, q) ==
    IF q.head = NULL THEN [mem |-> m, queue |-> q, ret |-> NULL]
    ELSE LET entry == q.head
             q1 == [q EXCEPT !.head = m[q.head].next]
         IN [mem |-> [m EXCEPT ![entry] = FreeEntry],
             queue |-> [q1 EXCEPT !.entries = @ - 1],
             ret |-> m[entry].data]

\* queue_pop_head on an existing queue.
PopHead(m, q) ==
    IF q.head = NULL THEN [mem |-> m, queue |-> q, ret |-> NULL]
    ELSE LET entry == q.head
             q1 == IF m[q.head].next = NULL
                   THEN [q EXCEPT !.head = NULL, !.tail = NULL]
                   ELSE [q EXCEPT !.head = m[q.head].next]
         IN [mem |-> [m EXCEPT ![entry] = FreeEntry],
             queue |-> [q1 EXCEPT !.entries = @ - 1],
             ret |-> m[entry].data]

PeekHead(m, q) == IF q.head = NULL THEN NULL ELSE m[q.head].data

PeekTail(m, q) == IF q.tail = NULL THEN NULL ELSE m[q.tail].data

\* The unlinking without "if (!entry->next) queue->tail = prev".
Unlink_KeepTail(m, q, entry, prev) ==
    LET m1 == IF prev # NULL THEN [m EXCEPT ![prev].next = m[entry].next] ELSE m
        q1 == IF prev # NULL THEN q ELSE [q EXCEPT !.head = m[entry].next]
    IN [mem |-> m1, queue |-> q1]

\* The unlinking of entry, whose predecessor is prev (NULL at the head), as
\* queue_remove, queue_remove_if and queue_remove_all all write it.
Unlink(m, q, entry, prev) ==
    LET m1 == IF prev # NULL THEN [m EXCEPT ![prev].next = m[entry].next] ELSE m
        q1 == IF prev # NULL THEN q ELSE [q EXCEPT !.head = m[entry].next]
        q2 == IF m[entry].next = NULL THEN [q1 EXCEPT !.tail = prev] ELSE q1
    IN [mem |-> m1, queue |-> q2]

\* The loop of queue_remove from entry on.
RECURSIVE RemoveScan(_, _, _, _, _)
RemoveScan(m, q, entry, prev, data) ==
    IF entry = NULL THEN [mem |-> m, queue |-> q, ret |-> 0]
    ELSE IF m[entry].data # data
         THEN RemoveScan(m, q, m[entry].next, entry, data)
         ELSE LET u == Unlink(m, q, entry, prev)
              IN [mem |-> [u.mem EXCEPT ![entry] = FreeEntry],
                  queue |-> [u.queue EXCEPT !.entries = @ - 1],
                  ret |-> 1]

\* queue_remove whose scan starts behind the head.
Remove_SkipHead(m, q, data) ==
    IF data = NULL \/ q.head = NULL THEN [mem |-> m, queue |-> q, ret |-> 0]
    ELSE RemoveScan(m, q, m[q.head].next, q.head, data)

Remove(m, q, data) ==
    IF data = NULL THEN [mem |-> m, queue |-> q, ret |-> 0]
    ELSE RemoveScan(m, q, q.head, NULL, data)

\* The loop of queue_remove_if from entry on.
RECURSIVE RemoveIfScan(_, _, _, _, _)
RemoveIfScan(m, q, entry, prev, fn) ==
    IF entry = NULL THEN [mem |-> m, queue |-> q, ret |-> NULL]
    ELSE IF m[entry].data \in fn.yes
         THEN LET u == Unlink(m, q, entry, prev)
              IN [mem |-> [u.mem EXCEPT ![entry] = FreeEntry],
                  queue |-> [u.queue EXCEPT !.entries = @ - 1],
                  ret |-> m[entry].data]
         ELSE RemoveIfScan(m, q, m[entry].next, entry, fn)

\* queue_remove_if without "queue->entries--".
RemoveIf_KeepCount(m, q, fn) ==
    IF ~fn.present THEN [mem |-> m, queue |-> q, ret |-> NULL]
    ELSE LET r == RemoveIfScan(m, q, q.head, NULL, fn)
         IN [r EXCEPT !.queue.entries = q.entries]

RemoveIf(m, q, fn) ==
    IF ~fn.present THEN [mem |-> m, queue |-> q, ret |-> NULL]
    ELSE RemoveIfScan(m, q, q.head, NULL, fn)

\* The filtering loop of queue_remove_all from entry on; dlog lists the
\* handles given to destroy so far.
RECURSIVE RemoveAllScan(_, _, _, _, _, _, _, _)
RemoveAllScan(m, q, entry, prev, fn, destroy, count, dlog) ==
    IF entry = NULL
    THEN [mem |-> m, queue |-> [q EXCEPT !.entries = @ - count],
          ret |-> count, dlog |-> dlog]
    ELSE IF m[entry].data \in fn.yes
         THEN LET u == Unlink(m, q, entry, prev)
              IN RemoveAllScan([u.mem EXCEPT ![entry] = FreeEntry], u.queue,
                               m[entry].next, prev, fn, destroy, count + 1,
                               IF destroy THEN Append(dlog, m[entry].data) ELSE dlog)
         ELSE RemoveAllScan(m, q, m[entry].next, entry, fn, destroy, count, dlog)

\* The loop that frees every entry from entry on (queue_destroy, and
\* queue_remove_all without a function).
RECURSIVE FreeAll(_, _, _, _, _)
FreeAll(m, entry, destroy, count, dlog) ==
    IF entry = NULL THEN [mem |-> m, ret |-> count, dlog |-> dlog]
    ELSE FreeAll([m EXCEPT ![entry] = FreeEntry], m[entry].next, destroy, count + 1,
                 IF destroy THEN Append(dlog, m[entry].data) ELSE dlog)

\* queue_remove_all that, without a function, forgets "queue->tail = NULL".
RemoveAll_KeepTail(m, q, fn, destroy) ==
    IF fn.present
    THEN RemoveAllScan(m, q, q.head, NULL, fn, destroy, 0, <<>>)
    ELSE LET f == FreeAll(m, q.head, destroy, 0, <<>>)
         IN [mem |-> f.mem,
             queue |-> [q EXCEPT !.head = NULL, !.entries = 0],
             ret |-> f.ret, dlog |-> f.dlog]

RemoveAll(m, q, fn, destroy) ==
    IF fn.present
    THEN RemoveAllScan(m, q, q.head, NULL, fn, destroy, 0, <<>>)
    ELSE LET f == FreeAll(m, q.head, destroy, 0, <<>>)
         IN [mem |-> f.mem,
             queue |-> [q EXCEPT !.head = NULL, !.tail = NULL, !.entries = 0],
             ret |-> f.ret, dlog |-> f.dlog]

\* What the caller's function and destroy see each time the filtering loop
\* of queue_remove_all invokes them, from entry on: function is invoked with
\* the entries removed so far unlinked and freed, destroy with the matching
\* entry unlinked and not yet freed, and entries is lowered after the loop.
RECURSIVE RemoveAllViews(_, _, _, _, _, _)
RemoveAllViews(m, q, entry, prev, fn, destroy) ==
    IF entry = NULL THEN {}
    ELSE {[mem |-> m, queue |-> q]} \cup
         IF m[entry].data \in fn.yes
         THEN LET u == Unlink(m, q, entry, prev)
              IN (IF destroy THEN {[mem |-> u.mem, queue |-> u.queue]} ELSE {}) \cup
                 RemoveAllViews([u.mem EXCEPT ![entry] = FreeEntry], u.queue,
                                m[entry].next, prev, fn, destroy)
         ELSE RemoveAllViews(m, q, m[entry].next, entry, fn, destroy)

\* What the caller's destroy sees each time the loop that frees every entry
\* invokes it, from entry on: the entries before entry are freed, and the
\* struct is as it was at the call.
RECURSIVE FreeAllViews(_, _, _, _)
FreeAllViews(m, q, entry, destroy) ==
    IF entry = NULL THEN {}
    ELSE (IF destroy THEN {[mem |-> m, queue |-> q]} ELSE {}) \cup
         FreeAllViews([m EXCEPT ![entry] = FreeEntry], q, m[entry].next, destroy)

\* The states in which a call of op (queue_remove_all or queue_destroy)
\* hands control to the caller's functions.
Handoffs(m, q, op, fn, destroy) ==
    IF op = "remove_all" /\ fn.present
    THEN RemoveAllViews(m, q, q.head, NULL, fn, destroy)
    ELSE FreeAllViews(m, q, q.head, destroy)

\* The loop of queue_find from entry on.
RECURSIVE FindScan(_, _, _)
FindScan(m, entry, fn) ==
    IF entry = NULL THEN NULL
    ELSE IF m[entry].data \in fn.yes THEN m[entry].data
         ELSE FindScan(m, m[entry].next, fn)

\* queue_find that falls back to a function accepting the head's handle
\* when none is given.
Find_Fallback(m, q, fn) ==
    IF ~fn.present THEN PeekHead(m, q) ELSE FindScan(m, q.head, fn)

Find(m, q, fn) == IF ~fn.present THEN NULL ELSE FindScan(m, q.head, fn)

\* ------------------------------------------------------- calling context
Top == stack[Len(stack)]

\* What one call made by a callback did to the entries, as seen by a
\* frame of queue_foreach whose callback is running (the call may come from
\* a nested queue_foreach): "none", "rmcur" (it freed exactly the entry the
\* callback was invoked for), "append" (push_tail linked an entry) or "other".
Change(f, m, m2, op) ==
    IF op = "destroy" THEN "other"
    ELSE IF m2 = m THEN "none"
    ELSE IF op = "push_tail" THEN "append"
    ELSE IF {n \in Nodes : m[n].used /\ ~m2[n].used} = {f.tmp} THEN "rmcur"
    ELSE "other"

\* The kind of the changes made so far during one queue_foreach call.
NextMode(mode, c) ==
    IF c = "none" \/ c = mode THEN mode
    ELSE IF mode = "clean" THEN c
    ELSE "other"

\* The stack after the running callback made a call that left the entry
\* memory as m2. A frame keeps start and visited only while its callbacks
\* made no change other than removing the current entry, or than appending.
Note(st, m2, op) ==
    [i \in 1..Len(st) |->
        LET mode2 == NextMode(st[i].mode, Change(st[i], mem, m2, op))
        IN [st[i] EXCEPT !.nops = IF i = Len(st) THEN @ + 1 ELSE @,
                         !.mode = mode2,
                         !.start = IF mode2 = "other" THEN <<>> ELSE @,
                         !.visited = IF mode2 = "other" THEN <<>> ELSE @,
                         !.gone = @ \/ (IF st[i].entry = NULL THEN FALSE
                                        ELSE ~m2[st[i].entry].used),
                         !.dnow = @ \/ (op = "destroy")]]

\* The program, or the callback of the innermost queue_foreach, may make
\* another call on the queue: it still holds its reference.
CanCall ==
    /\ qmem = "live"
    /\ ~crashed
    /\ destroys = 0
    /\ stack # <<>> => Top.nops < MaxCbOps

\* A call with an absent queue: no queue exists.
NoQueue == qmem = "none" /\ ~crashed

\* last records the calls the program makes outside any callback: what a
\* call made by a callback returns goes to the callback.
Returned(r) == IF stack = <<>> THEN r ELSE last

\* A call that changes nothing returns ret.
Query(op, arg, fn, ret) ==
    /\ last' = Returned(Result(op, arg, fn, ret, <<>>))
    /\ UNCHANGED <<mem, queue, qmem, stack, faults, crashed, destroys>>

\* A call that leaves the entry memory as m2 and the struct as q2 returns ret.
Update(op, arg, fn, ret, dlog, m2, q2) ==
    /\ mem' = m2
    /\ queue' = q2
    /\ stack' = Note(stack, m2, op)
    /\ last' = Returned(Result(op, arg, fn, ret, dlog))
    /\ UNCHANGED <<qmem, faults, crashed, destroys>>

\* ------------------------------------------------------------ operations
queue_new ==
    /\ NoQueue
    /\ \/ Query("new", NULL, NoFn, 0)
       \/ /\ qmem' = "live"
          /\ queue' = queue_ref([ref_count |-> 0, head |-> NULL, tail |-> NULL,
                                 entries |-> 0])
          /\ last' = Result("new", NULL, NoFn, 1, <<>>)
          /\ UNCHANGED <<mem, stack, faults, crashed, destroys>>

queue_push_tail(data) ==
    \/ NoQueue /\ Query("push_tail", data, NoFn, 0)
    \/ /\ CanCall
       /\ \E entry \in new0(mem) :
            IF entry = NULL
            THEN Update("push_tail", data, NoFn, 0, <<>>, mem, queue)
            ELSE LET r == PushTail(mem, queue, entry, data)
                 IN Update("push_tail", data, NoFn, 1, <<>>, r.mem, r.queue)

\* queue_push_head that counts the entry before it allocates it.
queue_push_head_CountFirst(data) ==
    \/ NoQueue /\ Query("push_head", data, NoFn, 0)
    \/ /\ CanCall
       /\ \E entry \in new0(mem) :
            IF entry = NULL
            THEN Update("push_head", data, NoFn, 0, <<>>, mem,
                        [queue EXCEPT !.entries = @ + 1])
            ELSE LET r == PushHead(mem, queue, entry, data)
                 IN Update("push_head", data, NoFn, 1, <<>>, r.mem, r.queue)

queue_push_head(data) ==
    \/ NoQueue /\ Query("push_head", data, NoFn, 0)
    \/ /\ CanCall
       /\ \E entry \in new0(mem) :
            IF entry = NULL
            THEN Update("push_head", data, NoFn, 0, <<>>, mem, queue)
            ELSE LET r == PushHead(mem, queue, entry, data)
                 IN Update("push_head", data, NoFn, 1, <<>>, r.mem, r.queue)

queue_pop_head ==
    \/ NoQueue /\ Query("pop_head", NULL, NoFn, NULL)
    \/ /\ CanCall
       /\ LET r == PopHead(mem, queue)
          IN Update("pop_head", NULL, NoFn, r.ret, <<>>, r.mem, r.queue)

queue_peek_head ==
    \/ NoQueue /\ Query("peek_head", NULL, NoFn, NULL)
    \/ CanCall /\ Query("peek_head", NULL, NoFn, PeekHead(mem, queue))

queue_peek_tail ==
    \/ NoQueue /\ Query("peek_tail", NULL, NoFn, NULL)
    \/ CanCall /\ Query("peek_tail", NULL, NoFn, PeekTail(mem, queue))

queue_find(fn) ==
    \/ NoQueue /\ Query("find", NULL, fn, NULL)
    \/ CanCall /\ Query("find", NULL, fn, Find(mem, queue, fn))

queue_remove(data) ==
    \/ NoQueue /\ Query("remove", data, NoFn, 0)
    \/ /\ CanCall
       /\ LET r == Remove(mem, queue, data)
          IN Update("remove", data, NoFn, r.ret, <<>>, r.mem, r.queue)

queue_remove_if(fn) ==
    \/ NoQueue /\ Query("remove_if", NULL, fn, NULL)
    \/ /\ CanCall
       /\ LET r == RemoveIf(mem, queue, fn)
          IN Update("remove_if", NULL, fn, r.ret, <<>>, r.mem, r.queue)

\* arg records whether a destroy function was given (1) or not (0).
queue_remove_all(fn, destroy) ==
    \/ NoQueue /\ Query("remove_all", IF destroy THEN 1 ELSE 0, fn, 0)
    \/ /\ CanCall
       /\ LET r == RemoveAll(mem, queue, fn, destroy)
          IN Update("remove_all", IF destroy THEN 1 ELSE 0, fn, r.ret, r.dlog,
                    r.mem, r.queue)

queue_length ==
    \/ NoQueue /\ Query("length", NULL, NoFn, 0)
    \/ CanCall /\ Query("length", NULL, NoFn, queue.entries)

queue_isempty ==
    \/ NoQueue /\ Query("isempty", NULL, NoFn, 1)
    \/ CanCall /\ Query("isempty", NULL, NoFn, IF queue.entries = 0 THEN 1 ELSE 0)

\* The program stops on an access to freed memory.
Crash(flt) ==
    /\ crashed' = TRUE
    /\ faults' = flt
    /\ UNCHANGED <<mem, queue, qmem, stack, last, destroys>>

\* queue_destroy may be called by the creator, once from outside any
\* iteration, and by callbacks (which may repeat it).
CanDestroy ==
    /\ qmem = "live"
    /\ ~crashed
    /\ destroys < MaxDestroys
    /\ stack = <<>> => destroys = 0
    /\ stack # <<>> => Top.nops < MaxCbOps

\* arg records whether a destroy function was given (1) or not (0).
queue_destroy(destroy) ==
    \/ NoQueue /\ Query("destroy", IF destroy THEN 1 ELSE 0, NoFn, 0)
    \/ /\ CanDestroy
       /\ IF queue.head = NULL THEN TRUE ELSE mem[queue.head].used
       /\ LET f == FreeAll(mem, queue.head, destroy, 0, <<>>)
              u == queue_unref(queue)
          IN /\ mem' = f.mem
             /\ queue' = u.queue
             /\ qmem' = IF u.freed THEN "freed" ELSE qmem
             /\ stack' = Note(stack, f.mem, "destroy")
             /\ last' = Returned(Result("destroy", IF destroy THEN 1 ELSE 0, NoFn,
                                         0, f.dlog))
             /\ destroys' = destroys + 1
             /\ UNCHANGED <<faults, crashed>>
    \/ \* head was left pointing at an entry an earlier queue_destroy freed:
       \* the walk reads that entry and frees it again.
       /\ CanDestroy
       /\ IF queue.head = NULL THEN FALSE ELSE ~mem[queue.head].used
       /\ LET flt == faults \cup {"destroy_read_freed_entry", "double_free"}
              u == queue_unref(queue)
          IN \/ Crash(flt)
             \/ /\ queue' = u.queue
                /\ qmem' = IF u.freed THEN "freed" ELSE qmem
                /\ stack' = Note(stack, mem, "destroy")
                /\ \E h \in Handles :
                     last' = Returned(Result("destroy", IF destroy THEN 1 ELSE 0,
                                             NoFn, 0,
                                             IF destroy THEN <<h>> ELSE <<>>))
                /\ destroys' = destroys + 1
                /\ faults' = flt
                /\ UNCHANGED <<mem, crashed>>

\* ------------------------------------------------------------ iteration
\* queue_find_entry from entry on: "true", "false", or "fault" when the walk
\* reads the next field of a freed entry.
RECURSIVE FindEntryScan(_, _, _, _)
FindEntryScan(m, entry, data, fuel) ==
    IF entry = NULL \/ fuel = 0 THEN "false"
    ELSE IF entry = data THEN "true"
    ELSE IF ~m[entry].used THEN "fault"
    ELSE FindEntryScan(m, m[entry].next, data, fuel - 1)

\* queue_find_entry whose walk starts behind the head.
queue_find_entry_SkipHead(m, q, data) ==
    FindEntryScan(m, IF q.head = NULL THEN NULL ELSE m[q.head].next, data, MaxNodes + 1)

queue_find_entry(m, q, data) == FindEntryScan(m, q.head, data, MaxNodes + 1)

\* The invocation with the cursor left on the entry being visited.
Visit_Stay(frames, fr, q, tmp, nx, d, flt) ==
    /\ stack' = Append(frames,
                       [fr EXCEPT !.tmp = tmp, !.entry = tmp,
                                  !.visited = <<>>, !.start = <<>>,
                                  !.mode = "other",
                                  !.nops = 0, !.gone = FALSE, !.dnow = FALSE])
    /\ queue' = q
    /\ faults' = flt
    /\ UNCHANGED <<mem, qmem, last, crashed, destroys>>

\* The invocation with the cursor moved one entry too far.
Visit_SkipNext(frames, fr, q, tmp, nx, d, flt) ==
    /\ stack' = Append(frames,
                       [fr EXCEPT !.tmp = tmp,
                                  !.entry = IF nx = NULL THEN NULL ELSE mem[nx].next,
                                  !.visited = IF fr.mode = "other" THEN <<>>
                                              ELSE Append(@, d),
                                  !.nops = 0, !.gone = FALSE, !.dnow = FALSE])
    /\ queue' = q
    /\ faults' = flt
    /\ UNCHANGED <<mem, qmem, last, crashed, destroys>>

\* The callback is invoked for entry tmp, whose fields read as nx and d.
Visit(frames, fr, q, tmp, nx, d, flt) ==
    /\ stack' = Append(frames,
                       [fr EXCEPT !.tmp = tmp, !.entry = nx,
                                  !.visited = IF fr.mode = "other" THEN <<>>
                                              ELSE Append(@, d),
                                  !.nops = 0, !.gone = FALSE, !.dnow = FALSE])
    /\ queue' = q
    /\ faults' = flt
    /\ UNCHANGED <<mem, qmem, last, crashed, destroys>>

\* The loop is left: queue_unref, and queue_foreach returns.
Leave(frames, q, flt) ==
    LET u == queue_unref(q)
    IN /\ stack' = frames
       /\ queue' = u.queue
       /\ qmem' = IF u.freed THEN "freed" ELSE qmem
       /\ last' = IF frames = <<>> THEN Result("foreach", 1, NoFn, 0, <<>>) ELSE last
       /\ faults' = flt
       /\ UNCHANGED <<mem, crashed, destroys>>

\* The loop without the test "queue->ref_count > 1".
Loop_NoRefTest(frames, fr, q, entry, flt) ==
    IF entry # NULL
    THEN IF mem[entry].used
         THEN Visit(frames, fr, q, entry, mem[entry].next, mem[entry].data, flt)
         ELSE \/ Crash(flt \cup {"foreach_read_freed_entry"})
              \/ \E nx \in Ptrs, d \in Handles :
                   Visit(frames, fr, q, entry, nx, d,
                         flt \cup {"foreach_read_freed_entry"})
    ELSE Leave(frames, q, flt)

\* The while test of queue_foreach and what follows it.
Loop(frames, fr, q, entry, flt) ==
    IF entry # NULL /\ q.ref_count > 1
    THEN IF mem[entry].used
         THEN Visit(frames, fr, q, entry, mem[entry].next, mem[entry].data, flt)
         ELSE \/ Crash(flt \cup {"foreach_read_freed_entry"})
              \/ \E nx \in Ptrs, d \in Handles :
                   Visit(frames, fr, q, entry, nx, d,
                         flt \cup {"foreach_read_freed_entry"})
    ELSE Leave(frames, q, flt)

NewFrame ==
    [tmp |-> NULL, entry |-> NULL, start |-> Contents(mem, queue),
     visited |-> <<>>, mode |-> "clean", nops |-> 0, gone |-> FALSE,
     dnow |-> FALSE]

\* queue_foreach whose walk starts at the entry behind the head.
queue_foreach_FromSecond(function) ==
    \/ NoQueue /\ Query("foreach", IF function THEN 1 ELSE 0, NoFn, 0)
    \/ /\ CanCall
       /\ ~function \/ queue.head = NULL
       /\ Query("foreach", IF function THEN 1 ELSE 0, NoFn, 0)
    \/ /\ CanCall
       /\ Len(stack) < MaxDepth
       /\ function /\ queue.head # NULL
       /\ Loop(Note(stack, mem, "foreach"), NewFrame, queue_ref(queue),
               mem[queue.head].next, faults)

\* The call of queue_foreach, up to the first invocation of function.
\* arg records whether function was given (1) or not (0).
queue_foreach(function) ==
    \/ NoQueue /\ Query("foreach", IF function THEN 1 ELSE 0, NoFn, 0)
    \/ /\ CanCall
       /\ ~function \/ queue.head = NULL
       /\ Query("foreach", IF function THEN 1 ELSE 0, NoFn, 0)
    \/ /\ CanCall
       /\ Len(stack) < MaxDepth
       /\ function /\ queue.head # NULL
       /\ Loop(Note(stack, mem, "foreach"), NewFrame, queue_ref(queue),
               queue.head, faults)

\* The callback returns; queue_foreach goes on to the next invocation of
\* function or returns.
ForeachResume ==
    /\ stack # <<>>
    /\ ~crashed
    /\ LET fr == Top
           frames == SubSeq(stack, 1, Len(stack) - 1)
       IN IF qmem = "freed"
          THEN \* queue->head, queue->ref_count are read in freed storage
               LET flt == faults \cup {"foreach_read_freed_queue"}
               IN \/ Crash(flt)
                  \/ /\ stack' = frames
                     /\ last' = IF frames = <<>>
                                THEN Result("foreach", 1, NoFn, 0, <<>>) ELSE last
                     /\ faults' = flt
                     /\ UNCHANGED <<mem, queue, qmem, crashed, destroys>>
          ELSE LET found == queue_find_entry(mem, queue, fr.entry)
                   flt == faults \cup {"find_entry_read_freed_entry"}
               IN CASE found = "true" -> Loop(frames, fr, queue, fr.entry, faults)
                    [] found = "false" -> Leave(frames, queue, faults)
                    [] OTHER ->
                         \/ Crash(flt)
                         \/ fr.entry # NULL /\ Loop(frames, fr, queue, fr.entry, flt)
                         \/ Leave(frames, queue, flt)

\* ---------------------------------------------------------- specification
Init ==
    /\ mem = [n \in Nodes |-> FreeEntry]
    /\ queue = [ref_count |-> 0, head |-> NULL, tail |-> NULL, entries |-> 0]
    /\ qmem = "none"
    /\ stack = <<>>
    /\ last = Result("init", NULL, NoFn, 0, <<>>)
    /\ faults = {}
    /\ crashed = FALSE
    /\ destroys = 0

\* A program that makes every call of the interface from outside any
\* callback; the callbacks it passes to queue_foreach do nothing.
NextApi ==
    \/ stack = <<>> /\ queue_new
    \/ stack = <<>> /\ \E data \in Handles : queue_push_tail(data)
    \/ stack = <<>> /\ \E data \in Handles : queue_push_head(data)
    \/ stack = <<>> /\ queue_pop_head
    \/ stack = <<>> /\ queue_peek_head
    \/ stack = <<>> /\ queue_peek_tail
    \/ stack = <<>> /\ \E fn \in Fns : queue_find(fn)
    \/ stack = <<>> /\ \E data \in Handles : queue_remove(data)
    \/ stack = <<>> /\ \E fn \in Fns : queue_remove_if(fn)
    \/ stack = <<>> /\ \E fn \in Fns, destroy \in BOOLEAN : queue_remove_all(fn, destroy)
    \/ stack = <<>> /\ queue_length
    \/ stack = <<>> /\ queue_isempty
    \/ stack = <<>> /\ \E destroy \in BOOLEAN : queue_destroy(destroy)
    \/ stack = <<>> /\ \E function \in BOOLEAN : queue_foreach(function)
    \/ ForeachResume

SpecApi == Init /\ [][NextApi]_vars

\* A program that fills the queue and iterates over it, with callbacks that
\* remove entries, clear the queue, append entries or destroy the queue.
NextIter ==
    \/ stack = <<>> /\ queue_new
    \/ \E data \in Handles : queue_push_tail(data)
    \/ stack # <<>> /\ \E data \in Handles : queue_remove(data)
    \/ stack # <<>> /\ queue_remove_all(NoFn, FALSE)
    \/ stack # <<>> /\ queue_destroy(FALSE)
    \/ stack = <<>> /\ queue_foreach(TRUE)
    \/ ForeachResume

Spec == Init /\ [][NextIter]_vars

\* The same program, whose callbacks return: a queue_foreach call in
\* progress goes on once its callback has made its calls.
SpecLive == Init /\ [][NextIter]_vars /\ WF_vars(ForeachResume)

\* A program whose callbacks start queue_foreach again on the same queue
\* and destroy it.
NextNested ==
    \/ stack = <<>> /\ queue_new
    \/ stack = <<>> /\ \E data \in Handles : queue_push_tail(data)
    \/ stack # <<>> /\ queue_destroy(FALSE)
    \/ queue_foreach(TRUE)
    \/ ForeachResume

SpecNested == Init /\ [][NextNested]_vars

\* A program whose callbacks make at most one change to the list (a
\* push_tail or a remove, as their first call) and start queue_foreach again
\* on the same queue; the queue is never destroyed.
NextNestedEdit ==
    \/ stack = <<>> /\ queue_new
    \/ (stack # <<>> => Top.nops = 0) /\ \E data \in Handles : queue_push_tail(data)
    \/ stack # <<>> /\ Top.nops = 0 /\ \E data \in Handles : queue_remove(data)
    \/ queue_foreach(TRUE)
    \/ ForeachResume

SpecNestedEdit == Init /\ [][NextNestedEdit]_vars

\* ================================================================ claims
\* The abstract value of the queue: its handles from head to tail.
Abs == Contents(mem, queue)

\* This step is a call of op made by the program, which has returned.
Called(op) == stack = <<>> /\ stack' = <<>> /\ last'.op = op

IsPrefix(s, t) == Len(s) <= Len(t) /\ s = SubSeq(t, 1, Len(s))

FreedReads ==
    {"find_entry_read_freed_entry", "foreach_read_freed_entry",
     "foreach_read_freed_queue"}

\* ------------------------------------------------------------------- C1
\* C1: when the callback of a queue_foreach call started by the creator (the
\* only holder) calls queue_destroy once, the storage of the struct is still
\* allocated when that call returns, the callback is not invoked again in
\* that queue_foreach call, and the storage is released at the very step at
\* which that queue_foreach call returns, not before and only once.
C1_Step ==
    /\ (stack # <<>> /\ destroys = 0 /\ destroys' = 1)
          => (qmem' = "live" /\ stack' # <<>>)
    /\ (stack' # <<>> /\ destroys' = 1) => stack'[1].dnow
    /\ (stack # <<>> /\ destroys = 1 /\ destroys' = 1 /\ ~crashed')
          => (qmem' = "freed" <=> stack' = <<>>)
    /\ qmem = "freed" => qmem' = "freed"

C1_DestroyInCallback == [][C1_Step]_vars

\* The callback has destroyed a queue of at least two entries while visiting
\* an entry that is not the last; the destroy call has returned.
C1_Witness ==
    /\ stack # <<>>
    /\ destroys = 1
    /\ qmem = "live"
    /\ stack[1].dnow
    /\ stack[1].entry # NULL
    /\ queue.entries >= 2

\* ------------------------------------------------------------------- C2
\* C2: while the callbacks remove entries, clear the queue, append entries
\* or destroy the queue (once), queue_foreach and queue_find_entry read no
\* field of a freed entry and no field of the freed struct.
C2_NoFreedRead == destroys <= 1 => faults \cap FreedReads = {}

\* ------------------------------------------------------------------- C3
\* C3: when the only change the callbacks make during a queue_foreach call
\* is to remove the entry they are invoked for, the handles passed to the
\* callback are at every moment a prefix of the contents the queue had at
\* the call (head to tail, none skipped, none twice), and when the call
\* returns they are all of them.
C3_Step ==
    /\ (stack' # <<>> /\ stack'[1].mode = "rmcur")
          => IsPrefix(stack'[1].visited, stack'[1].start)
    /\ (stack # <<>> /\ stack' = <<>> /\ stack[1].mode = "rmcur")
          => stack[1].visited = stack[1].start

C3_RemoveCurrent == [][C3_Step]_vars

\* An entry was removed by the callback invoked for it, and the entries
\* after it have been visited since: the callback now runs for the last of
\* three entries, having made no call yet.
C3_Witness ==
    /\ stack # <<>>
    /\ stack[1].mode = "rmcur"
    /\ Len(stack[1].start) = 3
    /\ stack[1].visited = stack[1].start
    /\ stack[1].nops = 0
    /\ queue.entries = 2

\* ------------------------------------------------------------------- C4
\* C4 as stated: the count is at least 1 while the storage is allocated and
\* the creator has not destroyed the queue or an iteration is in progress,
\* and the storage is never released while a queue_foreach call is in
\* progress, however often callbacks call queue_destroy. (Checked before
\* any access to freed memory has happened.)
C4_Original ==
    faults = {} =>
        /\ (qmem = "live" /\ (destroys = 0 \/ stack # <<>>)) => queue.ref_count >= 1
        /\ qmem = "freed" => stack = <<>>

\* C4 amended: the count is at least 1 while the storage is allocated and
\* the creator has not destroyed the queue or an iteration is in progress;
\* the storage is released at most once, at the step that takes the count
\* from 1 to 0; and it is not released while a queue_foreach call is in
\* progress provided queue_destroy is called at most once.
C4_Step ==
    /\ (qmem' = "live" /\ (destroys' = 0 \/ stack' # <<>>)) => queue'.ref_count >= 1
    /\ (qmem = "live" /\ qmem' = "freed")
          => (queue.ref_count = 1 /\ queue'.ref_count = 0)
    /\ (qmem = "live" /\ queue.ref_count = 1 /\ queue'.ref_count = 0)
          => qmem' = "freed"
    /\ qmem = "freed" => (qmem' = "freed" /\ queue' = queue)
    /\ (destroys' <= 1 /\ qmem' = "freed") => stack' = <<>>

C4_RefCount == [][C4_Step]_vars

\* A callback destroyed the queue and the storage was released when
\* queue_foreach returned.
C4_Witness ==
    /\ qmem = "freed"
    /\ destroys = 1
    /\ stack = <<>>
    /\ last.op = "foreach"
    /\ ~crashed

\* ------------------------------------------------------------------- C5
\* The list is well formed: head leads through allocated entries to tail,
\* whose next is absent, entries counts them, and entries is 0 exactly when
\* head and tail are both absent.
WellFormed(m, q) ==
    LET c == Chain(m, q)
    IN /\ Len(c) <= MaxNodes
       /\ \A i \in 1..Len(c) : m[c[i]].used
       /\ q.entries = Len(c)
       /\ IF c = <<>> THEN q.tail = NULL
          ELSE q.tail = c[Len(c)] /\ m[q.tail].next = NULL
       /\ q.entries = 0 <=> (q.head = NULL /\ q.tail = NULL)

\* C5: after every call of queue_new, push_head, push_tail, pop_head,
\* remove, remove_if and remove_all on a live queue, the list is well formed.
C5_WellFormed == qmem = "live" => WellFormed(mem, queue)

\* remove has unlinked one of three entries.
C5_Witness ==
    /\ qmem = "live"
    /\ last.op = "remove"
    /\ last.ret = 1
    /\ queue.entries = 2

\* ------------------------------------------------------------------- C6
Range(s) == {s[i] : i \in DOMAIN s}

\* C6: seen through Abs the queue is a sequence of handles: a successful
\* push_tail appends its handle and a successful push_head prepends it, a
\* failed push changes nothing, pop_head removes and returns the first
\* element, and peek_head and peek_tail return the first and the last element
\* without changing the sequence.
C6_Step ==
    /\ (Called("push_tail") /\ last'.ret = 1) => Abs' = Append(Abs, last'.arg)
    /\ (Called("push_head") /\ last'.ret = 1) => Abs' = <<last'.arg>> \o Abs
    /\ ((Called("push_tail") \/ Called("push_head")) /\ last'.ret = 0) => Abs' = Abs
    /\ (Called("pop_head") /\ Abs # <<>>)
          => (last'.ret = Head(Abs) /\ Abs' = Tail(Abs))
    /\ (Called("pop_head") /\ Abs = <<>>) => Abs' = <<>>
    /\ Called("peek_head")
          => (Abs' = Abs /\ last'.ret = IF Abs = <<>> THEN NULL ELSE Head(Abs))
    /\ Called("peek_tail")
          => (Abs' = Abs /\ last'.ret = IF Abs = <<>> THEN NULL ELSE Abs[Len(Abs)])

C6_Refinement == [][C6_Step]_vars

\* peek_tail returned the last of three handles, which differs from the first.
C6_Witness ==
    /\ last.op = "peek_tail"
    /\ Len(Abs) = 3
    /\ last.ret = Abs[3]
    /\ Abs[1] # Abs[3]

\* ------------------------------------------------------------------- C7
\* C7: what queue_length returns starts at 0, goes up by one with every push
\* that succeeds and down by one with every pop_head on a non-empty queue,
\* and is left alone by a failed push and by pop_head on an empty queue (so
\* it is the number of successful pushes minus that of effective pops);
\* queue_isempty returns true exactly when queue_length would return 0.
C7_Step ==
    /\ (Called("new") /\ last'.ret = 1) => queue'.entries = 0
    /\ ((Called("push_tail") \/ Called("push_head")) /\ last'.ret = 1)
          => queue'.entries = queue.entries + 1
    /\ ((Called("push_tail") \/ Called("push_head")) /\ last'.ret = 0)
          => queue'.entries = queue.entries
    /\ Called("pop_head")
          => queue'.entries = IF queue.entries = 0 THEN 0 ELSE queue.entries - 1
    /\ (Called("length") /\ qmem = "live")
          => (last'.ret = queue.entries /\ queue' = queue)
    /\ (Called("isempty") /\ qmem = "live")
          => ((last'.ret = 1) <=> (queue.entries = 0))

C7_Length == [][C7_Step]_vars

\* queue_length returned 2 on a queue that holds two entries.
C7_Witness ==
    /\ last.op = "length"
    /\ last.ret = 2
    /\ Cardinality({n \in Nodes : mem[n].used}) = 2

\* ------------------------------------------------------------------- C8
DropAt(s, i) == SubSeq(s, 1, i - 1) \o SubSeq(s, i + 1, Len(s))

FirstIdx(s, h) == CHOOSE i \in DOMAIN s : s[i] = h /\ \A j \in 1..(i - 1) : s[j] # h

\* queue_remove(data) found data: it returned true, unlinked and freed the
\* first entry that holds it, and left the others in place.
RemovedFirst(data) ==
    LET c == Chain(mem, queue)
        i == FirstIdx(Abs, data)
    IN /\ last'.ret = 1
       /\ Chain(mem', queue') = DropAt(c, i)
       /\ Abs' = DropAt(Abs, i)
       /\ ~mem'[c[i]].used
       /\ queue'.entries = queue.entries - 1

\* queue_remove returned false and changed nothing.
RemovedNothing == last'.ret = 0 /\ mem' = mem /\ queue' = queue

\* C8 as stated: for every handle a push stores, remove returns true and
\* unlinks the first entry holding it while one is stored, and returns false
\* and changes nothing once none is.
C8_OriginalStep ==
    (Called("remove") /\ qmem = "live")
        => IF last'.arg \in Range(Abs) THEN RemovedFirst(last'.arg) ELSE RemovedNothing

C8_Original == [][C8_OriginalStep]_vars

\* C8 amended: the same for every handle other than NULL; remove(q, NULL)
\* returns false and changes nothing, also while NULL is stored.
C8_Step ==
    (Called("remove") /\ qmem = "live")
        => IF last'.arg # NULL /\ last'.arg \in Range(Abs)
           THEN RemovedFirst(last'.arg) ELSE RemovedNothing

C8_Remove == [][C8_Step]_vars

\* remove returned true for a handle that was stored twice: one is left,
\* behind an entry that holds another handle.
C8_Witness ==
    /\ last.op = "remove"
    /\ last.ret = 1
    /\ Len(Abs) = 2
    /\ Abs[2] = last.arg
    /\ Abs[1] # last.arg

\* ------------------------------------------------------------------- C9
\* C9: remove_all without a function gives every stored handle to destroy
\* (when one is given) once, from head to tail, returns their number, frees
\* every entry and leaves head and tail absent and entries 0 without touching
\* the reference count; an allocation can then succeed, and a push_tail that
\* succeeds next leaves a well-formed queue holding just its handle.
C9_Step ==
    /\ (Called("remove_all") /\ ~last'.fn.present /\ qmem = "live")
          => /\ last'.ret = Len(Abs)
             /\ last'.dlog = IF last'.arg = 1 THEN Abs ELSE <<>>
             /\ queue' = [queue EXCEPT !.head = NULL, !.tail = NULL, !.entries = 0]
             /\ \A n \in Nodes : ~mem'[n].used
             /\ qmem' = "live"
             /\ new0(mem') # {NULL}
    /\ (last.op = "remove_all" /\ ~last.fn.present /\ qmem = "live"
            /\ Called("push_tail") /\ last'.ret = 1)
          => (Abs' = <<last'.arg>> /\ WellFormed(mem', queue'))

C9_RemoveAllClear == [][C9_Step]_vars

\* remove_all without a function gave three handles to destroy, not all equal.
C9_Witness ==
    /\ last.op = "remove_all"
    /\ ~last.fn.present
    /\ last.ret = 3
    /\ Len(last.dlog) = 3
    /\ last.dlog[1] # last.dlog[3]
    /\ queue.entries = 0

\* ------------------------------------------------------------------ C10
\* C10: remove_all with a function unlinks and frees exactly the entries
\* whose handle the function accepts, gives those handles to destroy (when
\* one is given) once each in queue order, returns their number and lowers
\* entries by it; the other entries stay, in their order, in a well-formed
\* list (head and tail are the first and last survivor), so that peek_tail
\* returns the last survivor and a push_tail that succeeds next appends
\* after it.
C10_Step ==
    /\ (Called("remove_all") /\ last'.fn.present /\ qmem = "live")
          => LET yes == last'.fn.yes
                 c == Chain(mem, queue)
             IN /\ Chain(mem', queue') = SelectSeq(c, LAMBDA n : mem[n].data \notin yes)
                /\ Abs' = SelectSeq(Abs, LAMBDA h : h \notin yes)
                /\ last'.ret = Len(Abs) - Len(Abs')
                /\ last'.dlog = IF last'.arg = 1
                                THEN SelectSeq(Abs, LAMBDA h : h \in yes) ELSE <<>>
                /\ queue'.entries = queue.entries - last'.ret
                /\ queue'.ref_count = queue.ref_count
                /\ \A i \in 1..Len(c) : mem'[c[i]].used <=> mem[c[i]].data \notin yes
                /\ WellFormed(mem', queue')
                /\ PeekTail(mem', queue') = IF Abs' = <<>> THEN NULL ELSE Abs'[Len(Abs')]
    /\ (last.op = "remove_all" /\ last.fn.present /\ qmem = "live"
            /\ Called("push_tail") /\ last'.ret = 1)
          => (Abs' = Append(Abs, last'.arg) /\ WellFormed(mem', queue'))

C10_RemoveAllMatching == [][C10_Step]_vars

\* remove_all with a function and a destroy removed two of three entries.
C10_Witness ==
    /\ last.op = "remove_all"
    /\ last.fn.present
    /\ last.arg = 1
    /\ last.ret = 2
    /\ Len(last.dlog) = 2
    /\ Len(Abs) = 1

\* ------------------------------------------------------------------ C11
\* C11: a push_head or push_tail on an existing queue that returns false
\* (its allocation failed) leaves head, tail, entries, the reference count,
\* every next link and every stored handle as they were.
C11_Step ==
    ((Called("push_tail") \/ Called("push_head")) /\ qmem = "live" /\ last'.ret = 0)
        => (queue' = queue /\ mem' = mem /\ qmem' = "live")

C11_AllocFailure == [][C11_Step]_vars

\* push_head failed on a queue of two entries while an address was free.
C11_Witness ==
    /\ last.op = "push_head"
    /\ last.ret = 0
    /\ qmem = "live"
    /\ queue.entries = 2
    /\ new0(mem) # {NULL}

\* ------------------------------------------------------------------ C12
\* The step changes neither the entries nor the struct nor its storage.
Untouched == mem' = mem /\ queue' = queue /\ qmem' = qmem

\* C12: pop_head, peek_head and peek_tail on an empty queue return NULL;
\* remove of NULL returns false; find and remove_if without a function
\* return NULL; foreach without a function or on an empty queue returns
\* without invoking a callback; every call without a queue returns false,
\* NULL or 0 (isempty: true); and none of these calls changes anything,
\* the reference count included.
C12_Step ==
    /\ ((Called("pop_head") \/ Called("peek_head") \/ Called("peek_tail"))
            /\ qmem = "live" /\ queue.head = NULL)
          => (last'.ret = NULL /\ Untouched)
    /\ (Called("remove") /\ qmem = "live" /\ last'.arg = NULL)
          => (last'.ret = 0 /\ Untouched)
    /\ ((Called("find") \/ Called("remove_if")) /\ qmem = "live" /\ ~last'.fn.present)
          => (last'.ret = NULL /\ Untouched)
    /\ Called("foreach") => Untouched
    /\ (stack = <<>> /\ stack' # <<>>) => queue.head # NULL
    /\ (qmem = "none" /\ stack' = <<>> /\ last'.op # "new")
          => (last'.ret = (IF last'.op = "isempty" THEN 1 ELSE 0) /\ Untouched)

C12_Degraded == [][C12_Step]_vars

\* find without a function returned NULL on a queue whose three entries
\* all hold handles other than NULL.
C12_Witness ==
    /\ last.op = "find"
    /\ ~last.fn.present
    /\ last.ret = NULL
    /\ qmem = "live"
    /\ Len(Abs) = 3
    /\ NULL \notin Range(Abs)

\* ------------------------------------------------------------------ C13
\* C13: while the callback changes nothing, the handles queue_foreach has
\* passed to it are a prefix of the contents the queue had at the call, in
\* head-to-tail order; when queue_foreach returns they are exactly those
\* contents (one invocation per entry), and the queue is as it was.
C13_Step ==
    /\ (stack' # <<>> /\ stack'[1].mode = "clean")
          => (IsPrefix(stack'[1].visited, stack'[1].start) /\ stack'[1].visited # <<>>)
    /\ (stack # <<>> /\ stack' = <<>> /\ stack[1].mode = "clean")
          => (stack[1].visited = stack[1].start /\ Abs' = stack[1].start
              /\ last'.op = "foreach")

C13_ForeachOrder == [][C13_Step]_vars

\* The callback, which changes nothing, runs for the last of three entries
\* that hold three different handles.
C13_Witness ==
    /\ stack # <<>>
    /\ stack[1].mode = "clean"
    /\ Len(stack[1].start) = 3
    /\ stack[1].visited = stack[1].start
    /\ Cardinality(Range(stack[1].start)) = 3

\* ------------------------------------------------------------------ C14
\* The positions of the handles that fn accepts.
Matching(s, fn) == {i \in DOMAIN s : s[i] \in fn.yes}

Least(S) == CHOOSE i \in S : \A j \in S : i <= j

\* C14: remove_if with a function unlinks and frees the first entry from
\* head whose handle the function accepts, returns that handle and lowers
\* entries by one, leaving the other entries in their order in a well-formed
\* list; when the function accepts no stored handle it returns NULL and
\* changes nothing.
C14_Step ==
    (Called("remove_if") /\ qmem = "live" /\ last'.fn.present)
        => LET c == Chain(mem, queue)
               hits == Matching(Abs, last'.fn)
           IN IF hits = {}
              THEN last'.ret = NULL /\ Untouched
              ELSE LET i == Least(hits)
                   IN /\ last'.ret = Abs[i]
                      /\ Chain(mem', queue') = DropAt(c, i)
                      /\ Abs' = DropAt(Abs, i)
                      /\ ~mem'[c[i]].used
                      /\ queue'.entries = queue.entries - 1
                      /\ queue'.ref_count = queue.ref_count
                      /\ WellFormed(mem', queue')

C14_RemoveIf == [][C14_Step]_vars

\* remove_if removed the first of the entries its function accepts: two
\* entries are left, and the second still holds an accepted handle.
C14_Witness ==
    /\ last.op = "remove_if"
    /\ last.fn.present
    /\ last.ret # NULL
    /\ Len(Abs) = 2
    /\ Abs[2] \in last.fn.yes
    /\ Abs[1] \notin last.fn.yes

\* ------------------------------------------------------------------ C15
\* This step is an invocation of the callback by the innermost
\* queue_foreach in progress, after an invocation in which the callback
\* made at least one call.
Revisit ==
    /\ stack # <<>>
    /\ Len(stack') = Len(stack)
    /\ Top.nops > 0
    /\ stack'[Len(stack')].nops = 0

\* C15: once the callback has removed the entry that queue_foreach saved as
\* its cursor, queue_foreach invokes the callback for no further entry,
\* whatever the callback does afterwards in that invocation (pushes
\* included). (Stated for runs without any access to freed memory.)
C15_Step == (stack # <<>> /\ Top.gone /\ faults' = {}) => ~Revisit

C15_CursorRemoved == [][C15_Step]_vars

\* ------------------------------------------------------------------ C16
\* C16 as stated: when the only changes the callbacks make during a
\* queue_foreach call are push_tail appends, every entry, the appended ones
\* included, has been passed to the callback when the call returns.
C16_OriginalStep ==
    (stack # <<>> /\ stack' = <<>> /\ stack[1].mode = "append")
        => stack[1].visited = Abs

C16_Original == [][C16_OriginalStep]_vars

\* C16 amended: when the only changes the callbacks make are push_tail
\* appends, the handles passed to the callback are at every moment a prefix
\* of the contents, which the contents at the call begin; the cursor saved
\* at an invocation is absent exactly when that invocation is for the
\* current tail, and only then does the call return after it. So an entry
\* appended during an invocation for an entry other than the tail is passed
\* to the callback later, after all pre-existing entries, and one appended
\* during an invocation for the current tail is never passed to it.
C16_Step ==
    /\ (stack' # <<>> /\ stack'[1].mode \in {"clean", "append"})
          => /\ IsPrefix(stack'[1].visited, Abs')
             /\ IsPrefix(stack'[1].start, Abs')
             /\ stack'[1].nops = 0
                   => (stack'[1].entry = NULL <=> stack'[1].visited = Abs')
             /\ stack'[1].entry # NULL
                   => Len(stack'[1].visited) < Len(Abs')
    /\ (stack # <<>> /\ stack' = <<>> /\ stack[1].mode = "append")
          => /\ stack[1].entry = NULL
             /\ IsPrefix(stack[1].start, stack[1].visited)
             /\ Abs' = Abs

C16_Append == [][C16_Step]_vars

\* The callback runs for an entry that an earlier invocation, for the first
\* of two entries, appended.
C16_Witness ==
    /\ stack # <<>>
    /\ stack[1].mode = "append"
    /\ Len(stack[1].start) = 2
    /\ Len(stack[1].visited) = 3
    /\ stack[1].nops = 0

\* ------------------------------------------------------------------ C17
\* A queue_foreach call in progress returns (or the program has stopped on
\* an access to freed memory).
Returns == stack # <<>> ~> (stack = <<>> \/ crashed)

\* C17 as stated: every queue_foreach call returns, given that every
\* invocation of the callback returns after a bounded number of calls.
C17_Original == Returns

\* A call made by a callback allocates an entry.
CbPush == stack # <<>> /\ \E n \in Nodes : ~mem[n].used /\ mem'[n].used

\* C17 amended: every queue_foreach call returns provided the callbacks
\* allocate entries only finitely often during it; and while the queue has
\* not been destroyed its list stays finite and acyclic, so the walks of
\* destroy, remove, remove_if, remove_all and find reach its end.
C17_Termination ==
    /\ [](qmem = "live" /\ destroys = 0 => WellFormed(mem, queue))
    /\ (<>[][~CbPush]_vars) => Returns

\* The walk goes on after invocations in which the callback changed the
\* list (not just by removing the entry it ran for, nor just by appending):
\* the callback now runs for one of two entries.
C17_Witness ==
    /\ stack # <<>>
    /\ stack[1].mode = "other"
    /\ stack[1].nops = 0
    /\ destroys = 0
    /\ faults = {}
    /\ queue.entries = 2

\* ------------------------------------------------------------------ C18
\* This step is an invocation of the callback by the innermost
\* queue_foreach in progress.
Invoked ==
    /\ stack # <<>>
    /\ Len(stack') = Len(stack)
    /\ stack'[Len(stack')].nops = 0
    /\ Top.nops > 0 \/ stack' # stack

\* C18: once a callback, at whatever depth of nested queue_foreach calls,
\* has called queue_destroy (once), no queue_foreach in progress invokes the
\* callback again, and the storage of the struct is released only when the
\* outermost queue_foreach returns.
C18_Step ==
    (destroys = 1 /\ destroys' = 1 /\ ~crashed')
        => (~Invoked /\ (qmem' = "freed" => stack' = <<>>))

C18_NestedDestroy == [][C18_Step]_vars

\* ------------------------------------------------------------------ C19
\* This step is taken by queue_foreach itself: it is entered and reaches
\* its first invocation of the callback, it goes from one invocation to the
\* next, or it returns.
ForeachOwnStep == Len(stack') # Len(stack) \/ Invoked

\* C19: while the queue is not destroyed, queue_foreach holds exactly one
\* reference while it is in progress (the count is 1 plus the number of
\* calls in progress, so it is the same at the return as at the call), and
\* the steps queue_foreach takes itself change no entry, no link and none
\* of head, tail and entries: whatever differs at the return was changed by
\* the calls the callbacks made.
C19_Step ==
    (destroys' = 0 /\ qmem' = "live")
        => /\ queue'.ref_count = 1 + Len(stack')
           /\ ForeachOwnStep
                 => /\ mem' = mem
                    /\ queue' = [queue EXCEPT !.ref_count = queue'.ref_count]
                    /\ Len(stack') < Len(stack)
                          => queue'.ref_count = queue.ref_count - 1
                    /\ Len(stack') > Len(stack)
                          => queue'.ref_count = queue.ref_count + 1

C19_ForeachFrame == [][C19_Step]_vars

\* A queue_foreach call started by a callback has returned to it after the
\* callbacks changed the list; the outer call alone holds its reference.
C19_Witness ==
    /\ Len(stack) = 1
    /\ stack[1].nops = 2
    /\ stack[1].mode = "other"
    /\ destroys = 0
    /\ queue.ref_count = 2
    /\ queue.entries = 2

\* ------------------------------------------------------------------ C20
\* The queue as caller code can observe it: no freed entry is reached from
\* head or from tail, and entries is the number of entries reached from head.
Observed(m, q) ==
    LET c == Walk(m, q.head, MaxNodes + 1)
        t == Walk(m, q.tail, MaxNodes + 1)
    IN /\ \A i \in 1..Len(c) : m[c[i]].used
       /\ \A i \in 1..Len(t) : m[t[i]].used
       /\ q.entries = Len(c)

\* C20: each time queue_remove_all invokes function or destroy, each time
\* queue_destroy invokes destroy, and while a callback of queue_foreach runs
\* on a queue whose storage is allocated, no freed entry is reachable from
\* head or tail and entries counts the entries reachable from head.
C20_Step ==
    /\ ((Called("remove_all") \/ Called("destroy")) /\ qmem = "live")
          => \A v \in Handoffs(mem, queue, last'.op, last'.fn, last'.arg = 1) :
                Observed(v.mem, v.queue)
    /\ (stack' # <<>> /\ qmem' = "live") => Observed(mem', queue')

C20_Handoff == [][C20_Step]_vars

====
